---- MODULE Spec2Model ----
(***************************************************************************)
(* Registration admission pipeline of the hackathon site: the client       *)
(* submit flow (registrationService), the waitlist SQL functions, the      *)
(* register-with-ip admission function, the row-level-security policies on *)
(* public.registrations and the get-resume-url edge function.              *)
(***************************************************************************)
EXTENDS Integers, Sequences, FiniteSets, TLC

(* ---------------------------------------------------------------------- *)
(* Program constants                                                       *)
(* ---------------------------------------------------------------------- *)

\* should_add_to_waitlist: v_limit INTEGER := 200
v_limit == 200

\* "3/hour limit" per email and "5/hour limit" per IP of the database limiter
EmailLimit == 3

\* the ceiling of the client-side limiter
ClientLimit == 3

\* VITE_LOG_AGGREGATION_BATCH_SIZE || '10', and batchSize || 10
DefaultBatchSize == 10

IpLimit == 5

(* ---------------------------------------------------------------------- *)
(* Bounds of the model                                                     *)
(* ---------------------------------------------------------------------- *)

\* number of free main-list places the table may start with
MaxFree == 1

\* number of submit flows the waitlist specification starts
MaxSubmits == 2

\* number of submit flows the rate-limit specification starts
MaxRateSubmits == 6

\* last instant of the model clock
MaxTime == 1

\* last instant of the model clock of the rate-limit specification
MaxRateTime == 2

\* length of the one-hour rate-limit window, in clock instants
WindowTicks == 2

\* the browser: submit attempts made, clock ticks, ticks in its one-hour window
MaxClientSubmits == 5

MaxClientTime == 4

ClientWindowTicks == 2

\* rows of public.incomplete_registrations
MaxIncomplete == 2

\* entries logged through the aggregator
MaxLogs == 11

\* length of the full names built from the alphabet
MaxNameLen == 3

\* submissions started where completion calls are followed
MaxCompletionSubmits == 2

\* a nullable SQL / JavaScript value is NULL or Some(v)
NULL == <<>>

Some(v) == <<v>>

Flows == {"f1", "f2"}

\* full names typed into the form: one of length 1, one of length 8
ShortName == <<"J">>

ValidName == <<"J", "a", "n", "e", " ", "D", "o", "e">>

LinkedIn == "linkedin.com/in/x"

\* contents of the form at submission; the e-mail field is a sequence of
\* characters, as typed
Form(email, fullName, linkedIn, resumePath) ==
  [email |-> email, fullName |-> fullName, linkedIn |-> linkedIn, resumePath |-> resumePath,
   whatsapp |-> NULL]

Forms ==
  { Form(<<"a">>, ValidName, Some(LinkedIn), NULL),
    Form(<<" ", "A">>, ValidName, NULL, Some("cv1.pdf")),
    Form(<<"b">>, ValidName, Some(LinkedIn), NULL),
    Form(<<"b">>, ShortName, Some(LinkedIn), NULL) }

FormsDb ==
  { Form(<<"a">>, ValidName, Some(LinkedIn), NULL),
    Form(<<"b">>, ValidName, NULL, Some("cv1.pdf")),
    Form(<<"c">>, ValidName, Some(LinkedIn), Some("cv2.pdf")) }

FormsResume ==
  { Form(<<"b">>, ValidName, NULL, Some("cv1.pdf")) }

FormsCompletion ==
  { [Form(<<"a">>, ValidName, Some(LinkedIn), NULL) EXCEPT !.whatsapp = Some(<<"7", " ">>)],
    Form(<<" ", "A">>, ValidName, Some(LinkedIn), NULL) }

FormsRate ==
  { Form(<<"a">>, ValidName, Some(LinkedIn), NULL),
    Form(<<"b">>, ValidName, Some(LinkedIn), NULL) }

IPs == {"ip1"}

IPsRate == {"ip1"}

VARIABLES seeded, inserted, attempts, now, flow, started, call, emailField,
          limiter, incomplete, aggregator

vars == <<seeded, inserted, attempts, now, flow, started, call, emailField,
          limiter, incomplete, aggregator>>

\* a main-list registration made before the modelled flows start
SeedRow(i) ==
  [email |-> <<"s", ToString(i)>>, full_name |-> ValidName,
   linkedin_url |-> Some(LinkedIn), resume_path |-> NULL,
   ip_address |-> "ip0", created_at |-> 0, is_waitlist |-> FALSE]

\* the registrations made before the modelled flows start
SeedRows == [i \in 1..v_limit |-> SeedRow(i)]

\* public.registrations: the first `seeded` earlier rows, followed by the
\* rows inserted since, in insertion order
registrations == SubSeq(SeedRows, 1, seeded) \o inserted

(* ---------------------------------------------------------------------- *)
(* SQL helpers                                                             *)
(* ---------------------------------------------------------------------- *)

\* SQL three-valued "<" on a NOT NULL column and a nullable value:
\* NULL when the operand is NULL
SqlLt(a, b) == IF b = NULL THEN NULL ELSE Some(a < b[1])

\* COALESCE(a, b)
Coalesce(a, b) == IF a = NULL THEN b ELSE a[1]

(* ---------------------------------------------------------------------- *)
(* Waitlist functions of the database                                      *)
(* ---------------------------------------------------------------------- *)

\* SELECT COUNT(*) INTO v_count FROM public.registrations
\*   WHERE is_waitlist = false
get_registration_count(rows) ==
  Cardinality({i \in 1..Len(rows) : rows[i].is_waitlist = FALSE})

\* the limit is compared with > instead of >=
should_add_to_waitlist_Strict(rows) ==
  LET v_count == Cardinality({i \in 1..Len(rows) : rows[i].is_waitlist = FALSE})
  IN  v_count > v_limit

should_add_to_waitlist(rows) ==
  LET v_count == Cardinality({i \in 1..Len(rows) : rows[i].is_waitlist = FALSE})
  IN  v_count >= v_limit

\* SELECT created_at FROM registrations WHERE email = p_email
\*   AND is_waitlist = true LIMIT 1   (NULL when no row matches)
FirstWaitlistedCreatedAt(rows, p_email) ==
  LET hits == {i \in 1..Len(rows) : rows[i].email = p_email /\ rows[i].is_waitlist = TRUE}
  IN  IF hits = {} THEN NULL
      ELSE Some(rows[CHOOSE i \in hits : \A j \in hits : i <= j].created_at)

\* SELECT COUNT(*) + 1 ... WHERE is_waitlist = true AND created_at < (...):
\* a row is counted when the condition is true, not when it is false or NULL
get_waitlist_position(rows, p_email) ==
  LET ref == FirstWaitlistedCreatedAt(rows, p_email)
      counted == {i \in 1..Len(rows) :
                    /\ rows[i].is_waitlist = TRUE
                    /\ SqlLt(rows[i].created_at, ref) = Some(TRUE)}
      v_position == Some(Cardinality(counted) + 1)
  IN  Coalesce(v_position, 0)

(* ---------------------------------------------------------------------- *)
(* Storage-layer constraints on public.registrations                       *)
(* ---------------------------------------------------------------------- *)

NameChars == {"J", "a", "n", "e", "D", "o", " ", "'", "-"}

\* CHECK (length(full_name) >= 2 AND length(full_name) <= 100
\*        AND full_name ~ '^[a-zA-Z\s''-]+$')
check_full_name(full_name) ==
  /\ Len(full_name) >= 2
  /\ Len(full_name) <= 100
  /\ \A i \in 1..Len(full_name) : full_name[i] \in NameChars

\* characters a full name is built from: two ASCII letters, a non-ASCII
\* letter, the three marks both rules name, and a digit
NameAlphabet == {"J", "a", "e-acute", " ", "'", "-", "7"}

\* \p{L}: the letters of the alphabet, ASCII or not
UnicodeLetters == {"J", "a", "e-acute"}

\* isValidFullName: length 2 to 100 and /^[\p{L}\s'-]+$/u
isValidFullName(name) ==
  /\ name # <<>>
  /\ Len(name) >= 2
  /\ Len(name) <= 100
  /\ \A i \in 1..Len(name) : name[i] \in UnicodeLetters \cup {" ", "'", "-"}

\* all names of the alphabet up to a length
NamesUpTo(n) == UNION {[1..k -> NameAlphabet] : k \in 0..n}

\* names at the upper length limit and one past it
LongNames == {[i \in 1..100 |-> "a"], [i \in 1..101 |-> "a"]}

\* email UK: the e-mail column carries a unique constraint
EmailTaken(rows, email) == \E i \in 1..Len(rows) : rows[i].email = email

(* ---------------------------------------------------------------------- *)
(* Client: registrationService                                             *)
(* ---------------------------------------------------------------------- *)

RECURSIVE TrimLeft(_)
TrimLeft(s) == IF s # <<>> /\ Head(s) = " " THEN TrimLeft(Tail(s)) ELSE s

RECURSIVE TrimRight(_)
TrimRight(s) ==
  IF s # <<>> /\ s[Len(s)] = " " THEN TrimRight(SubSeq(s, 1, Len(s) - 1)) ELSE s

\* String.prototype.trim
Trim(s) == TrimRight(TrimLeft(s))

LowerChar(c) == IF c = "A" THEN "a" ELSE IF c = "B" THEN "b" ELSE c

\* String.prototype.toLowerCase
ToLowerCase(s) == [i \in 1..Len(s) |-> LowerChar(s[i])]

\* the e-mail is trimmed but its case is kept
NormalizeEmail_KeepCase(raw) == Trim(raw)

\* const email = formData.email.trim().toLowerCase()
NormalizeEmail(raw) == ToLowerCase(Trim(raw))

\* a failed capacity check sends the registrant to the waitlist
checkWaitlist_WaitlistOnError(rows, rpcFails) ==
  IF rpcFails THEN TRUE ELSE should_add_to_waitlist(rows) = TRUE

\* checkWaitlist: { shouldWaitlist: data === true }, or false with the error
checkWaitlist(rows, rpcFails) ==
  IF rpcFails THEN FALSE ELSE should_add_to_waitlist(rows) = TRUE

\* formData.whatsapp?.trim() || null
TrimOrNull(text) ==
  IF text = NULL THEN NULL
  ELSE IF Trim(text[1]) = <<>> THEN NULL ELSE Some(Trim(text[1]))

IdleFlow ==
  [pc |-> "idle", email |-> <<>>, fullName |-> <<>>, linkedIn |-> NULL,
   resumePath |-> NULL, ip |-> "none", isWaitlist |-> FALSE, waitlistError |-> FALSE,
   accessToken |-> NULL, outcome |-> "none", registrationId |-> NULL,
   error |-> NULL, waitlistPosition |-> NULL, success |-> NULL,
   whatsapp |-> NULL, registrant |-> NULL, completion |-> "none",
   reply |-> NULL, steps |-> <<>>]

\* submit, lines 221-228: capture and sanitize the form data
Begin(f, forms, ips, maxSubmits) ==
  /\ flow[f].pc \in {"idle", "done"}
  /\ started < maxSubmits
  /\ \E form \in forms, ip \in ips :
       flow' = [flow EXCEPT ![f] =
                  [IdleFlow EXCEPT !.pc = "checkWaitlist",
                                   !.email = NormalizeEmail(form.email),
                                   !.fullName = Trim(form.fullName),
                                   !.linkedIn = form.linkedIn,
                                   !.resumePath = form.resumePath,
                                   !.ip = ip,
                                   !.whatsapp = TrimOrNull(form.whatsapp)]]
  /\ started' = started + 1
  /\ UNCHANGED <<seeded, inserted, attempts, now, call, emailField, limiter, incomplete, aggregator>>

\* submit, lines 230-232: const { shouldWaitlist, error: waitlistError } =
\* await this.checkWaitlist(); const isWaitlist = shouldWaitlist
CheckWaitlist(f, failures) ==
  /\ flow[f].pc = "checkWaitlist"
  /\ \E rpcFails \in failures :
       flow' = [flow EXCEPT ![f].pc = "generateAccessToken",
                            ![f].isWaitlist = checkWaitlist(registrations, rpcFails),
                            ![f].waitlistError = rpcFails,
                            ![f].steps = Append(@, "checkWaitlist")]
  /\ UNCHANGED <<seeded, inserted, attempts, now, started, call, emailField, limiter, incomplete, aggregator>>

\* submit, line 235: a token, or null when the RPC fails
GenerateAccessToken(f, tokens) ==
  /\ flow[f].pc = "generateAccessToken"
  /\ \E token \in tokens :
       flow' = [flow EXCEPT ![f].pc = "submitRegistration",
                            ![f].accessToken = token,
                            ![f].steps = Append(@, "generateAccessToken")]
  /\ UNCHANGED <<seeded, inserted, attempts, now, started, call, emailField, limiter, incomplete, aggregator>>

(* ---------------------------------------------------------------------- *)
(* Server: the register-with-ip admission function                         *)
(* ---------------------------------------------------------------------- *)

\* attempts never leave the window
InWindow_Forever(a, t) == TRUE

\* accepted attempts of the current window: those younger than one window
InWindow(a, t) == t - a.at < WindowTicks

EmailAttempts(log, email, t) ==
  Cardinality({i \in 1..Len(log) : log[i].email = email /\ InWindow(log[i], t)})

IpAttempts(log, ip, t) ==
  Cardinality({i \in 1..Len(log) : log[i].ip = ip /\ InWindow(log[i], t)})

\* the ceilings are compared with > instead of >=
RateLimited_OffByOne(log, email, ip, t) ==
  \/ EmailAttempts(log, email, t) > EmailLimit
  \/ IpAttempts(log, ip, t) > IpLimit

\* step 2: reject when the e-mail or the IP has used up its ceiling
RateLimited(log, email, ip, t) ==
  \/ EmailAttempts(log, email, t) >= EmailLimit
  \/ IpAttempts(log, ip, t) >= IpLimit

\* step 1: the field rules, and LinkedIn URL or resume path must be present
ValidSubmission(body) ==
  /\ check_full_name(body.full_name)
  /\ body.linkedin_url # NULL \/ body.resume_path # NULL

\* outcome of one admission, decided in the order of steps 1, 2 and 4
AdmissionOutcome(rows, log, body, ip, t) ==
  IF ~ValidSubmission(body) THEN "validation"
  ELSE IF RateLimited(log, body.email, ip, t) THEN "rate_limit"
  ELSE IF EmailTaken(rows, body.email) THEN "duplicate_email"
  ELSE "success"

NewRow(body, ip, t) ==
  [email |-> body.email, full_name |-> body.full_name,
   linkedin_url |-> body.linkedin_url, resume_path |-> body.resume_path,
   ip_address |-> ip, created_at |-> t, is_waitlist |-> body.is_waitlist]

\* the rows one admission inserts: one row on success, none otherwise
AdmitRows(rows, log, body, ip, t) ==
  IF AdmissionOutcome(rows, log, body, ip, t) = "success"
  THEN <<NewRow(body, ip, t)>>
  ELSE <<>>

\* every admission that passed the limiter is counted as an attempt
AdmitLog(rows, log, body, ip, t) ==
  IF AdmissionOutcome(rows, log, body, ip, t) \in {"success", "duplicate_email"}
  THEN Append(log, [email |-> body.email, ip |-> ip, at |-> t])
  ELSE log

(* ---------------------------------------------------------------------- *)
(* Client: submitRegistration and the rest of submit                       *)
(* ---------------------------------------------------------------------- *)

\* body of the supabase.functions.invoke("register-with-ip") call
RequestBody(fl) ==
  [full_name |-> fl.fullName, email |-> fl.email,
   linkedin_url |-> fl.linkedIn, resume_path |-> fl.resumePath,
   is_waitlist |-> fl.isWaitlist]

\* error texts, word by word: the ones register-with-ip answers with (as
\* the tests of part_018 have it answer), and the ones submitRegistration
\* makes up when the call does not come back
ServerMessage(outcome) ==
  CASE outcome = "rate_limit" ->
         <<"Rate", "limit", "exceeded.", "Please", "try", "again", "later.">>
    [] outcome = "duplicate_email" ->
         <<"This", "email", "is", "already", "registered">>
    [] outcome = "validation" -> <<"Invalid", "input">>
    [] OTHER -> <<"Registration", "failed">>

NetworkMessage == <<"Request", "timeout:", "The", "Edge", "Function", "took",
                    "too", "long", "to", "respond.", "Please", "try", "again.">>

\* const rateLimitError = "Rate limit exceeded. Please try again later."
rateLimitError ==
  <<"Rate", "limit", "exceeded.", "Please", "try", "again", "later.">>

\* String.prototype.includes, on words
Includes(message, words) ==
  \E i \in 1..(Len(message) - Len(words) + 1) :
     SubSeq(message, i, i + Len(words) - 1) = words

\* every insert error is reported as a rate limit
SubmitError_AlwaysRateLimit(message) == rateLimitError

\* submit, lines 252-272: the error submit returns for an insert error
SubmitError(message) ==
  IF Includes(message, <<"rate", "limit">>) \/ Includes(message, <<"too", "many">>)
  THEN rateLimitError
  ELSE message

\* what supabase.functions.invoke hands back: a transport error, or the
\* body of the answer. A request not sent or timed out comes back as an
\* error; "ok" is the answer of register-with-ip, {success: true, data:
\* {id}} or {success: false, error}; "empty" is an answer without a body,
\* "noid" a success answer without data.id, "nosuccess" a body without a
\* success field
Reply(net, outcome, id) ==
  CASE net \in {"unsent", "timeout"} ->
         [insertError |-> Some(NetworkMessage), registrationData |-> NULL]
    [] net = "empty" ->
         [insertError |-> NULL, registrationData |-> NULL]
    [] net = "nosuccess" ->
         [insertError |-> NULL,
          registrationData |-> Some([success |-> NULL, id |-> NULL, error |-> NULL])]
    [] outcome # "success" ->
         [insertError |-> NULL,
          registrationData |-> Some([success |-> Some(FALSE), id |-> NULL,
                                     error |-> Some(ServerMessage(outcome))])]
    [] net = "noid" ->
         [insertError |-> NULL,
          registrationData |-> Some([success |-> Some(TRUE), id |-> NULL, error |-> NULL])]
    [] OTHER ->
         [insertError |-> NULL,
          registrationData |-> Some([success |-> Some(TRUE), id |-> Some(id), error |-> NULL])]

\* submitRegistration, lines 112-156: { registrationId, error } for what
\* invoke handed back
submitRegistration(reply) ==
  IF reply.insertError # NULL
  THEN [registrationId |-> NULL, error |-> reply.insertError]
  ELSE IF reply.registrationData # NULL /\ reply.registrationData[1].success # Some(TRUE)
  THEN [registrationId |-> NULL,
        error |-> IF reply.registrationData[1].error # NULL
                  THEN reply.registrationData[1].error
                  ELSE Some(<<"Registration", "failed">>)]
  ELSE [registrationId |-> IF reply.registrationData = NULL THEN NULL
                           ELSE reply.registrationData[1].id,
        error |-> NULL]

\* the completion call is started whatever the insert came to
StepsAtReturn_AlwaysMark(fl, error) ==
  fl.steps \o <<"markIncompleteRegistrationCompleted">>
           \o (IF error = NULL THEN <<"trackRegistration(true)">>
               ELSE <<"trackRegistration(false)">>)

\* submit, lines 252-288: the calls made on the way out, after an insert
\* error trackRegistration(false), otherwise the completion call (for a
\* non-empty e-mail) and trackRegistration(true)
StepsAtReturn(fl, error) ==
  fl.steps \o (IF error # NULL THEN <<"trackRegistration(false)">>
               ELSE (IF fl.email # <<>>
                     THEN <<"markIncompleteRegistrationCompleted">> ELSE <<>>)
                    \o <<"trackRegistration(true)">>)

\* the flow once submit has returned: the result is left, and after a
\* successful insert (lines 280-285) the completion call that was started and
\* not awaited, with the submission it belongs to
Returned(fl, error, registrationId, waitlistPosition) ==
  [IdleFlow EXCEPT
     !.pc = "done",
     !.outcome = fl.outcome,
     !.success = Some(error = NULL),
     !.error = error,
     !.registrationId = IF error = NULL THEN registrationId ELSE NULL,
     !.accessToken = IF error = NULL THEN fl.accessToken ELSE NULL,
     !.isWaitlist = error = NULL /\ fl.isWaitlist,
     !.waitlistPosition = waitlistPosition,
     !.registrant = IF error = NULL
                    THEN Some([email |-> fl.email, whatsapp |-> fl.whatsapp])
                    ELSE NULL,
     !.completion = IF error = NULL /\ fl.email # <<>> THEN "pending" ELSE "none",
     !.reply = fl.reply,
     !.steps = StepsAtReturn(fl, error)]

\* submitRegistration and submit, lines 246-272: the request is not sent
\* ("unsent": edge function disabled, or the call throws before reaching the
\* server), is served but the reply is lost ("timeout"), or is served and
\* answered ("ok" and the other replies); an insert error makes submit
\* return the error, no error makes it go on (lines 274-296)
SubmitRegistration(f, nets) ==
  /\ flow[f].pc = "submitRegistration"
  /\ \E net \in nets :
       LET body    == RequestBody(flow[f])
           served  == net # "unsent"
           outcome == IF served
                      THEN AdmissionOutcome(registrations, attempts, body, flow[f].ip, now)
                      ELSE "none"
           reply   == Reply(net, outcome, Len(registrations) + 1)
           handed  == submitRegistration(reply)
           ok      == handed.error = NULL
           error   == IF ok THEN NULL ELSE Some(SubmitError(handed.error[1]))
           fl2     == [flow[f] EXCEPT !.outcome = outcome, !.reply = Some(reply),
                                      !.steps = Append(@, "submitRegistration")]
       IN  /\ inserted' = IF served
                          THEN inserted \o AdmitRows(registrations, attempts, body, flow[f].ip, now)
                          ELSE inserted
           /\ attempts' = IF served
                          THEN AdmitLog(registrations, attempts, body, flow[f].ip, now)
                          ELSE attempts
           /\ flow' = [flow EXCEPT ![f] =
                 IF ok /\ flow[f].isWaitlist
                 THEN [fl2 EXCEPT !.pc = "getWaitlistPosition",
                                  !.registrationId = handed.registrationId]
                 ELSE Returned(fl2, error, handed.registrationId, NULL)]
  /\ UNCHANGED <<seeded, now, started, call, emailField, limiter, incomplete, aggregator>>

\* getWaitlistPosition: the position when the RPC answers, null otherwise
getWaitlistPosition(rows, email, rpcFails) ==
  IF rpcFails THEN NULL ELSE Some(get_waitlist_position(rows, email))

\* submit, lines 275-296: the position is fetched, then submit returns
GetWaitlistPosition(f, failures) ==
  /\ flow[f].pc = "getWaitlistPosition"
  /\ \E rpcFails \in failures :
       flow' = [flow EXCEPT ![f] =
         Returned([flow[f] EXCEPT !.steps = Append(@, "getWaitlistPosition")],
                  NULL, flow[f].registrationId,
                  getWaitlistPosition(registrations, flow[f].email, rpcFails))]
  /\ UNCHANGED <<seeded, inserted, attempts, now, started, call, emailField, limiter, incomplete, aggregator>>

\* the clock of the database advances
Tick(maxTime) ==
  /\ now < maxTime
  /\ now' = now + 1
  /\ UNCHANGED <<seeded, inserted, attempts, flow, started, call, emailField, limiter, incomplete, aggregator>>

(* ---------------------------------------------------------------------- *)
(* Direct calls of the database by anon and authenticated callers          *)
(* ---------------------------------------------------------------------- *)

\* the roles that reach the database through the public interface
Callers == {"anon", "authenticated"}

\* e-mails named in direct calls: two that submit flows use, one unknown
DbEmails == {<<"a">>, <<"b">>, <<"z">>}

NoCall == [fn |-> "none", arg |-> NULL, result |-> NULL]

\* GRANT EXECUTE ON FUNCTION get_registration_count() TO anon, authenticated
RpcGetRegistrationCount(caller) ==
  /\ call' = [fn |-> "get_registration_count", arg |-> NULL,
              result |-> Some(get_registration_count(registrations))]
  /\ UNCHANGED <<seeded, inserted, attempts, now, flow, started, emailField, limiter, incomplete, aggregator>>

\* GRANT EXECUTE ON FUNCTION should_add_to_waitlist() TO anon, authenticated
RpcShouldAddToWaitlist(caller) ==
  /\ call' = [fn |-> "should_add_to_waitlist", arg |-> NULL,
              result |-> Some(should_add_to_waitlist(registrations))]
  /\ UNCHANGED <<seeded, inserted, attempts, now, flow, started, emailField, limiter, incomplete, aggregator>>

\* GRANT EXECUTE ON FUNCTION get_waitlist_position(TEXT) TO anon, authenticated
RpcGetWaitlistPosition(caller, p_email) ==
  /\ call' = [fn |-> "get_waitlist_position", arg |-> Some(p_email),
              result |-> Some(get_waitlist_position(registrations, p_email))]
  /\ UNCHANGED <<seeded, inserted, attempts, now, flow, started, emailField, limiter, incomplete, aggregator>>

\* the policy lets every row be updated
DenyAllUpdates_Allow(caller, row) == TRUE

\* POLICY "Deny all updates" FOR UPDATE USING (false) WITH CHECK (false)
DenyAllUpdates(caller, row) == FALSE

\* POLICY "Deny all deletes" FOR DELETE USING (false)
DenyAllDeletes(caller, row) == FALSE

\* the rows named by WHERE email = p_email
Matching(p_email) == {i \in 1..Len(inserted) : inserted[i].email = p_email}

\* UPDATE public.registrations SET is_waitlist = v WHERE email = p_email
UpdateRegistration(caller, p_email, v) ==
  LET hit == {i \in Matching(p_email) : DenyAllUpdates(caller, inserted[i])}
  IN  /\ inserted' = [i \in 1..Len(inserted) |->
                        IF i \in hit THEN [inserted[i] EXCEPT !.is_waitlist = v]
                        ELSE inserted[i]]
      /\ call' = [fn |-> "update", arg |-> Some(p_email),
                  result |-> Some(Cardinality(hit))]
      /\ UNCHANGED <<seeded, attempts, now, flow, started, emailField, limiter, incomplete, aggregator>>

\* DELETE FROM public.registrations WHERE email = p_email
DeleteRegistration(caller, p_email) ==
  LET hit == {i \in Matching(p_email) : DenyAllDeletes(caller, inserted[i])}
      keep == {i \in 1..Len(inserted) : i \notin hit}
      RECURSIVE Remaining(_)
      Remaining(n) == IF n = 0 THEN <<>>
                      ELSE IF n \in keep THEN Append(Remaining(n - 1), inserted[n])
                      ELSE Remaining(n - 1)
  IN  /\ inserted' = Remaining(Len(inserted))
      /\ call' = [fn |-> "delete", arg |-> Some(p_email),
                  result |-> Some(Cardinality(hit))]
      /\ UNCHANGED <<seeded, attempts, now, flow, started, emailField, limiter, incomplete, aggregator>>

(* ---------------------------------------------------------------------- *)
(* The get-resume-url edge function                                        *)
(* ---------------------------------------------------------------------- *)

\* createSignedUrl(resume_path, 3600), and expires_at = Date.now() + 3600 s
expiresIn == 3600

\* the bearer tokens supabaseAdmin.auth.getUser accepts
AcceptedTokens == {"good"}

\* authHeader.replace("Bearer ", ""): the header is its scheme and the rest
ReplaceBearer(authHeader) ==
  IF Len(authHeader) > 0 /\ Head(authHeader) = "Bearer " THEN Tail(authHeader)
  ELSE authHeader

\* auth.getUser(token): a user for an accepted token, an error otherwise
getUser(token) == IF token \in {<<t>> : t \in AcceptedTokens} THEN Some("user") ELSE NULL

\* one thing at most goes wrong around a request: it is a CORS preflight,
\* the Supabase environment is missing, the body is not JSON, or the
\* storage refuses to sign
Faults == {"none", "options", "env", "json", "sign"}

Request(fault, adminPasswordEnv, admin_password, authHeader, resume_path) ==
  [method |-> IF fault = "options" THEN "OPTIONS" ELSE "POST",
   supabaseEnv |-> fault # "env",
   json |-> fault # "json",
   signs |-> fault # "sign",
   ADMIN_PASSWORD |-> adminPasswordEnv,
   admin_password |-> admin_password,
   authHeader |-> authHeader,
   resume_path |-> resume_path]

Requests ==
  { Request(fault, adminPasswordEnv, admin_password, authHeader, resume_path) :
      fault \in Faults,
      adminPasswordEnv \in {NULL, Some("secret")},
      admin_password \in {NULL, Some("admin123"), Some("secret")},
      authHeader \in {NULL, Some(<<"Bearer ", "good">>), Some(<<"Bearer ", "bad">>)},
      resume_path \in {NULL, Some("cv1.pdf"), Some("cv9.pdf")} }

\* a response: its status, the error, signed URL and expiry of its body,
\* and whether createSignedUrl was invoked to produce it
Response(status, error, url, expires_at, signed) ==
  [status |-> status, error |-> error, url |-> url, expires_at |-> expires_at,
   signed |-> signed]

\* Deno.env.get("ADMIN_PASSWORD") || "admin123"
expectedPassword(req) ==
  IF req.ADMIN_PASSWORD = NULL THEN "admin123" ELSE req.ADMIN_PASSWORD[1]

\* whatever the header holds, its token passes
TokenRejected_Never(req) == FALSE

\* lines 66-79: a header is present and getUser does not accept its token
TokenRejected(req) ==
  /\ req.authHeader # NULL
  /\ getUser(ReplaceBearer(req.authHeader[1])) = NULL

\* the lookup finds a registration whatever the path
RegistrationFound_Always(rows, resume_path) == TRUE

\* lines 94-98: .eq("resume_path", resume_path).single() yields a row when
\* exactly one registration has that resume_path
RegistrationFound(rows, resume_path) ==
  Cardinality({i \in 1..Len(rows) : rows[i].resume_path = resume_path}) = 1

\* the serve handler
getResumeUrl(rows, req, t) ==
  IF req.method = "OPTIONS" THEN Response(200, NULL, NULL, NULL, FALSE)
  ELSE IF ~req.supabaseEnv \/ ~req.json
    THEN Response(500, Some("Internal server error"), NULL, NULL, FALSE)
  ELSE IF req.admin_password # Some(expectedPassword(req)) /\ req.authHeader = NULL
    THEN Response(401, Some("Unauthorized - Admin access required"), NULL, NULL, FALSE)
  ELSE IF TokenRejected(req)
    THEN Response(401, Some("Unauthorized - Invalid token"), NULL, NULL, FALSE)
  ELSE IF req.resume_path = NULL
    THEN Response(400, Some("Invalid request - resume_path required"), NULL, NULL, FALSE)
  ELSE IF ~RegistrationFound(rows, req.resume_path)
    THEN Response(404, Some("Resume not found"), NULL, NULL, FALSE)
  ELSE IF ~req.signs
    THEN Response(500, Some("Failed to generate download URL"), NULL, NULL, TRUE)
  ELSE Response(200, NULL, Some(<<"signed", req.resume_path[1]>>), Some(t + expiresIn), TRUE)

\* a request is served; the credentials it carried and the response are kept
GetResumeUrl(requests) ==
  /\ \E req \in requests :
       call' = [fn |-> "get-resume-url",
                arg |-> Some([ADMIN_PASSWORD |-> req.ADMIN_PASSWORD,
                              admin_password |-> req.admin_password,
                              authHeader |-> req.authHeader]),
                result |-> Some(getResumeUrl(registrations, req, now))]
  /\ UNCHANGED <<seeded, inserted, attempts, now, flow, started, emailField, limiter, incomplete, aggregator>>

(* ---------------------------------------------------------------------- *)
(* The verify-recaptcha edge function                                      *)
(* ---------------------------------------------------------------------- *)

\* what the siteverify call comes to: the fetch fails, the reply is not
\* JSON, or the reply is JSON with or without a success field
ProviderOutcomes ==
  { [kind |-> "network_error", success |-> NULL, score |-> NULL],
    [kind |-> "not_json", success |-> NULL, score |-> NULL],
    [kind |-> "json", success |-> NULL, score |-> NULL],
    [kind |-> "json", success |-> Some(FALSE), score |-> NULL],
    [kind |-> "json", success |-> Some(TRUE), score |-> NULL],
    [kind |-> "json", success |-> Some(TRUE), score |-> Some(9)] }

\* a request to verify-recaptcha with its environment and the provider's
\* behaviour, were the provider called
CaptchaRequests ==
  [ method : {"POST", "OPTIONS"},
    RECAPTCHA_SECRET_KEY : {NULL, Some("key")},
    json : BOOLEAN,
    token : {NULL, Some("tok")},
    provider : ProviderOutcomes ]

\* a response of verify-recaptcha, and whether siteverify was fetched
CaptchaResponse(status, success, score, error, fetched) ==
  [status |-> status, success |-> success, score |-> score, error |-> error,
   fetched |-> fetched]

\* createResponse(data): 200 with the data as body
createResponse(data, fetched) ==
  CaptchaResponse(200, data.success, data.score, NULL, fetched)

\* createErrorResponse(message, status)
createErrorResponse(message, status, fetched) ==
  CaptchaResponse(status, NULL, NULL, Some(message), fetched)

\* a failed siteverify call is taken for a successful verification
fetchSiteverify_FailOpen(req) ==
  IF req.provider.kind = "json" THEN req.provider
  ELSE [kind |-> "json", success |-> Some(TRUE), score |-> NULL]

\* lines 26-37: fetch(siteverify) and verifyResponse.json(); a network error
\* and an unparsable reply throw
fetchSiteverify(req) == req.provider

\* the serve handler of verify-recaptcha
verifyRecaptcha(req) ==
  IF req.method = "OPTIONS" THEN CaptchaResponse(200, NULL, NULL, NULL, FALSE)
  ELSE IF req.RECAPTCHA_SECRET_KEY = NULL
    THEN createErrorResponse("reCAPTCHA secret key not configured", 500, FALSE)
  ELSE IF ~req.json THEN createErrorResponse("Unknown error", 500, FALSE)
  ELSE IF req.token = NULL THEN createErrorResponse("CAPTCHA token is required", 400, FALSE)
  ELSE LET verifyData == fetchSiteverify(req)
       IN  IF verifyData.kind # "json" THEN createErrorResponse("Unknown error", 500, TRUE)
           ELSE createResponse(verifyData, TRUE)

\* a request is served; the request and the response are kept
VerifyRecaptcha(requests) ==
  /\ \E req \in requests :
       call' = [fn |-> "verify-recaptcha", arg |-> Some(req),
                result |-> Some(verifyRecaptcha(req))]
  /\ UNCHANGED <<seeded, inserted, attempts, now, flow, started, emailField, limiter, incomplete, aggregator>>

(* ---------------------------------------------------------------------- *)
(* The e-mail field of the registration form (useRegistrationForm)         *)
(* ---------------------------------------------------------------------- *)

\* values typed into the e-mail field: a registered address, the same with
\* a trailing blank, an unregistered one, and an empty field
EmailValues == {<<"s", "1">>, <<"s", "1", " ">>, <<"n">>, <<>>}

\* isValidEmail on the values typed: the empty field is not an address
isValidEmail(email) == email # <<>>

\* useState initial values: empty field, untouched, no error, no timer set,
\* no lookup in flight
EmptyForm ==
  [email |-> <<>>, touched |-> FALSE, error |-> "none", timer |-> NULL,
   lookups |-> {}, linkedIn |-> <<>>, hasLinkedIn |-> FALSE, hasResume |-> FALSE,
   reported |-> NULL]

\* the effect of lines 76-117, run when formData.email or touched.email
\* changed: the pending timer is cleared, and a new one is set for the
\* trimmed, lower-cased e-mail when it is valid and the field was touched
EmailCheckEffect(email, touched) ==
  IF isValidEmail(NormalizeEmail(email)) /\ touched
  THEN Some(NormalizeEmail(email))
  ELSE NULL

\* handleInputChange: the value is stored, the field's error is cleared, and
\* the effect runs for the new value
ChangeEmail(value) ==
  /\ value # emailField.email
  /\ emailField' = [emailField EXCEPT !.email = value,
                          !.error = "none",
                          !.timer = EmailCheckEffect(value, emailField.touched)]
  /\ UNCHANGED <<seeded, inserted, attempts, now, flow, started, call, limiter,
                 incomplete, aggregator>>

\* handleBlur on the e-mail field: the field is touched; an invalid value
\* gets its validation error, a valid one a lookup for value.trim(); the
\* effect runs when touched.email changed
BlurEmail ==
  /\ emailField' = [emailField EXCEPT
       !.touched = TRUE,
       !.error = IF isValidEmail(Trim(emailField.email)) THEN emailField.error ELSE "invalid",
       !.lookups = IF isValidEmail(Trim(emailField.email))
                   THEN emailField.lookups \cup {[email |-> Trim(emailField.email), by |-> "blur"]}
                   ELSE emailField.lookups,
       !.timer = IF emailField.touched THEN emailField.timer
                 ELSE EmailCheckEffect(emailField.email, TRUE)]
  /\ UNCHANGED <<seeded, inserted, attempts, now, flow, started, call, limiter,
                 incomplete, aggregator>>

\* the 500 ms timer fires: checkEmailExists is called for the e-mail the
\* timer was set for
TimerFires ==
  /\ emailField.timer # NULL
  /\ emailField' = [emailField EXCEPT
       !.timer = NULL,
       !.lookups = emailField.lookups \cup {[email |-> emailField.timer[1], by |-> "debounce"]}]
  /\ UNCHANGED <<seeded, inserted, attempts, now, flow, started, call, limiter,
                 incomplete, aggregator>>

\* checkEmailExists (not in src/): whether a registration has the e-mail
checkEmailExists(rows, email) == EmailTaken(rows, email)

\* the error state after a lookup has answered: lines 94-108 for the
\* debounced lookup, lines 135-142 for the lookup of handleBlur
ErrorAfterLookup(error, exists, by) ==
  IF exists THEN "duplicate"
  ELSE IF by = "blur" THEN "none"
  ELSE IF error = "duplicate" THEN "none"
  ELSE error

\* a lookup in flight answers and its continuation sets the error state
LookupCompletes ==
  /\ \E lookup \in emailField.lookups :
       emailField' = [emailField EXCEPT
         !.lookups = emailField.lookups \ {lookup},
         !.error = ErrorAfterLookup(emailField.error,
                     checkEmailExists(registrations, lookup.email), lookup.by)]
  /\ UNCHANGED <<seeded, inserted, attempts, now, flow, started, call, limiter,
                 incomplete, aggregator>>

\* values typed into the LinkedIn field: nothing, a blank, a profile URL,
\* the same after a blank, and something that is no LinkedIn URL
LinkedInValues == {<<>>, <<" ">>, <<"l">>, <<" ", "l">>, <<"x">>}

\* validateField("linkedIn", value) (not in src/): the profile URL passes
validateFieldLinkedIn(value) == IF value = <<"l">> THEN "none" ELSE "invalid"

\* the flag taken from the untrimmed value
HasLinkedIn_NoTrim(value) == value # <<>>

\* handleInputChange, line 69: !!value.trim()
HasLinkedIn(value) == Trim(value) # <<>>

\* handleInputChange on the LinkedIn field: the value is stored and
\* hasLinkedIn follows it
ChangeLinkedIn(value) ==
  /\ value # emailField.linkedIn
  /\ emailField' = [emailField EXCEPT !.linkedIn = value,
                                      !.hasLinkedIn = HasLinkedIn(value)]
  /\ UNCHANGED <<seeded, inserted, attempts, now, flow, started, call, limiter,
                 incomplete, aggregator>>

\* setHasResume: a resume is selected or removed
SetHasResume(selected) ==
  /\ selected # emailField.hasResume
  /\ emailField' = [emailField EXCEPT !.hasResume = selected]
  /\ UNCHANGED <<seeded, inserted, attempts, now, flow, started, call, limiter,
                 incomplete, aggregator>>

\* resetForm: every field, flag and error goes back to its initial value;
\* the effect runs for the empty e-mail and clears the timer, lookups in
\* flight stay in flight
ResetForm ==
  /\ emailField' = [EmptyForm EXCEPT !.lookups = emailField.lookups]
  /\ UNCHANGED <<seeded, inserted, attempts, now, flow, started, call, limiter,
                 incomplete, aggregator>>

\* validateAllFields, lines 156-166: what it reports for the LinkedIn field
validateAllFields(form) ==
  LET linkedIn == Trim(form.linkedIn)
      ownError == IF linkedIn # <<>> THEN validateFieldLinkedIn(linkedIn) ELSE "none"
  IN  IF ~form.hasLinkedIn /\ ~form.hasResume THEN "resumeRequired" ELSE ownError

\* the form is validated on submit
ValidateAllFields ==
  /\ emailField' = [emailField EXCEPT !.reported = Some(validateAllFields(emailField))]
  /\ UNCHANGED <<seeded, inserted, attempts, now, flow, started, call, limiter,
                 incomplete, aggregator>>

(* ---------------------------------------------------------------------- *)
(* The log aggregator with batching enabled (LogAggregator)                *)
(* ---------------------------------------------------------------------- *)

\* config.batchSize as parsed from the environment: 0 stands for a value
\* that parseInt turns into 0 or NaN
BatchSizes == {0, 2, 3}

\* the aggregator after construction: nothing buffered, no timer; batches
\* are the calls of sendBatch made so far, logged counts the entries
NoAggregator(batchSize) ==
  [batchSize |-> batchSize, logBuffer |-> <<>>, flushTimer |-> NULL,
   pending |-> FALSE, batches |-> <<>>, logged |-> 0]

\* the buffer is flushed only when it has grown past the batch size
BufferFull_Above(agg, buffer) ==
  Len(buffer) > (IF agg.batchSize # 0 THEN agg.batchSize ELSE DefaultBatchSize)

\* bufferLog, line 135: logBuffer.length >= (config.batchSize || 10)
BufferFull(agg, buffer) ==
  Len(buffer) >= (IF agg.batchSize # 0 THEN agg.batchSize ELSE DefaultBatchSize)

\* flush, lines 150-162: nothing happens on an empty buffer; otherwise the
\* buffer is emptied, the timer cleared and the entries handed to sendBatch
flush(agg) ==
  IF agg.logBuffer = <<>> THEN agg
  ELSE [agg EXCEPT !.logBuffer = <<>>,
                   !.flushTimer = NULL,
                   !.pending = IF agg.flushTimer # NULL THEN FALSE ELSE @,
                   !.batches = Append(@, agg.logBuffer)]

\* bufferLog, lines 131-145: the entry is pushed, then the buffer is flushed
\* when full, and a timer is set when none is
bufferLog(agg, entry) ==
  LET pushed == [agg EXCEPT !.logBuffer = Append(@, entry), !.logged = @ + 1]
  IN  IF BufferFull(pushed, pushed.logBuffer) THEN flush(pushed)
      ELSE IF pushed.flushTimer = NULL
      THEN [pushed EXCEPT !.flushTimer = Some("timer"), !.pending = TRUE]
      ELSE pushed

\* log with batching enabled: entries are numbered in the order logged
Log(maxLogs) ==
  /\ aggregator.logged < maxLogs
  /\ aggregator' = bufferLog(aggregator, aggregator.logged + 1)
  /\ UNCHANGED <<seeded, inserted, attempts, now, flow, started, call, emailField,
                 limiter, incomplete>>

\* the timer set by bufferLog fires and its callback calls flush
FlushTimerFires ==
  /\ aggregator.pending
  /\ aggregator' = flush([aggregator EXCEPT !.pending = FALSE])
  /\ UNCHANGED <<seeded, inserted, attempts, now, flow, started, call, emailField,
                 limiter, incomplete>>

\* flush is called from outside: beforeunload, or a caller of the public
\* method
Flush ==
  /\ aggregator' = flush(aggregator)
  /\ UNCHANGED <<seeded, inserted, attempts, now, flow, started, call, emailField,
                 limiter, incomplete>>

(* ---------------------------------------------------------------------- *)
(* The client-side rate limiter (localStorage "jengahacks_rate_limit")     *)
(* ---------------------------------------------------------------------- *)

\* nothing stored, no request sent, no submit attempted
NoLimiter ==
  [state |-> NULL, sent |-> <<>>, tries |-> 0, prior |-> NULL, last |-> "none"]

\* the stored window is never taken for elapsed
WindowExpired_Never(stored, t) == FALSE

\* now - windowStart > windowLength
WindowExpired(stored, t) == t - stored.windowStart > ClientWindowTicks

\* the state a submit attempt works on: a fresh window when nothing is
\* stored or the stored window has elapsed, the stored state otherwise
CurrentWindow(stored, t) ==
  IF stored = NULL THEN [attempts |-> 0, windowStart |-> t]
  ELSE IF WindowExpired(stored[1], t) THEN [attempts |-> 0, windowStart |-> t]
  ELSE stored[1]

\* the submit is blocked only above the ceiling
Blocked_AboveCeiling(window) == window.attempts > ClientLimit

\* attempts has reached the ceiling within the window
Blocked(window) == window.attempts >= ClientLimit

\* a submit attempt in the browser: the attempt is counted in the current
\* window; below the ceiling the request goes to register-with-ip, at the
\* ceiling the rate-limit error is shown and nothing is sent
ClientSubmit(maxSubmits) ==
  /\ limiter.tries < maxSubmits
  /\ LET window == CurrentWindow(limiter.state, now)
     IN  limiter' =
           [state |-> Some([window EXCEPT !.attempts = @ + 1]),
            sent  |-> IF Blocked(window) THEN limiter.sent
                      ELSE Append(limiter.sent, now),
            tries |-> limiter.tries + 1,
            prior |-> limiter.state,
            last  |-> IF Blocked(window) THEN "blocked" ELSE "sent"]
  /\ UNCHANGED <<seeded, inserted, attempts, now, flow, started, call, emailField,
                 incomplete, aggregator>>


(* ---------------------------------------------------------------------- *)
(* public.incomplete_registrations and its functions                       *)
(* ---------------------------------------------------------------------- *)

\* NULLIF(text, '')
NullIfEmpty(text) == IF text = <<>> THEN NULL ELSE Some(text)

\* v_email := NULLIF(LOWER(TRIM(p_email)), '')
NormalizedEmailParam(p_email) ==
  IF p_email = NULL THEN NULL ELSE NullIfEmpty(ToLowerCase(Trim(p_email[1])))

\* v_whatsapp := NULLIF(TRIM(p_whatsapp_number), '')
NormalizedWhatsappParam(p_whatsapp_number) ==
  IF p_whatsapp_number = NULL THEN NULL ELSE NullIfEmpty(Trim(p_whatsapp_number[1]))

\* COALESCE(a, b) on nullable values
CoalesceNullable(a, b) == IF a = NULL THEN b ELSE a

\* rows matched whether completed or not
MatchesUncompleted_Any(row, v_email, v_whatsapp) ==
  \/ v_email # NULL /\ row.email = v_email
  \/ v_whatsapp # NULL /\ row.whatsapp_number = v_whatsapp

\* WHERE ((v_email IS NOT NULL AND email = v_email) OR (v_whatsapp IS NOT
\* NULL AND whatsapp_number = v_whatsapp)) AND completed = false
MatchesUncompleted(row, v_email, v_whatsapp) ==
  /\ \/ v_email # NULL /\ row.email = v_email
     \/ v_whatsapp # NULL /\ row.whatsapp_number = v_whatsapp
  /\ row.completed = FALSE

\* the SELECT ordered the other way round
LatestMatching_Earliest(rows, v_email, v_whatsapp) ==
  LET matching == {i \in 1..Len(rows) : MatchesUncompleted(rows[i], v_email, v_whatsapp)}
  IN  {i \in matching : \A j \in matching : rows[i].entered_at <= rows[j].entered_at}

\* ORDER BY entered_at DESC LIMIT 1: the rows the SELECT may yield, one of
\* the matching rows with the latest entered_at
LatestMatching(rows, v_email, v_whatsapp) ==
  LET matching == {i \in 1..Len(rows) : MatchesUncompleted(rows[i], v_email, v_whatsapp)}
  IN  {i \in matching : \A j \in matching : rows[j].entered_at <= rows[i].entered_at}

\* the UPDATE of lines 94-103 applied to row v_id
LoggedUpdate(rows, v_id, v_email, v_whatsapp, p_full_name, t) ==
  [rows EXCEPT ![v_id] =
     [@ EXCEPT !.last_activity_at = t,
               !.email = CoalesceNullable(v_email, @),
               !.whatsapp_number = CoalesceNullable(v_whatsapp, @),
               !.full_name = CoalesceNullable(p_full_name, @)]]

\* the INSERT of lines 108-124; ids are handed out in order
LoggedInsert(rows, v_email, v_whatsapp, p_full_name, t) ==
  Append(rows, [id |-> Len(rows) + 1, email |-> v_email,
                whatsapp_number |-> v_whatsapp, full_name |-> p_full_name,
                entered_at |-> t, last_activity_at |-> t,
                completed |-> FALSE, completed_at |-> NULL])

\* CONSTRAINT check_email_or_whatsapp
check_email_or_whatsapp(row) == row.email # NULL \/ row.whatsapp_number # NULL

\* the check of the parameters left out
NoRaise_Never(v_email, v_whatsapp) == TRUE

\* lines 77-79 and 147-149: IF v_email IS NULL AND v_whatsapp IS NULL THEN
\* RAISE EXCEPTION
NoRaise(v_email, v_whatsapp) == ~(v_email = NULL /\ v_whatsapp = NULL)

\* log_incomplete_registration: the outcomes the call may have, each the
\* table afterwards and the id returned (no id when the exception is raised)
log_incomplete_registration(rows, p_email, p_whatsapp_number, p_full_name, t) ==
  LET v_email    == NormalizedEmailParam(p_email)
      v_whatsapp == NormalizedWhatsappParam(p_whatsapp_number)
      found      == LatestMatching(rows, v_email, v_whatsapp)
      added      == LoggedInsert(rows, v_email, v_whatsapp, p_full_name, t)
  IN  IF ~NoRaise(v_email, v_whatsapp)
      THEN {[rows |-> rows, id |-> NULL]}
      ELSE IF found # {}
      THEN {[rows |-> LoggedUpdate(rows, rows[i].id, v_email, v_whatsapp, p_full_name, t),
             id |-> Some(rows[i].id)] : i \in found}
      ELSE IF ~check_email_or_whatsapp(added[Len(added)])
      THEN {[rows |-> rows, id |-> NULL]}
      ELSE {[rows |-> added, id |-> Some(Len(rows) + 1)]}

\* mark_incomplete_registration_completed: the table afterwards
mark_incomplete_registration_completed(rows, p_email, p_whatsapp_number, t) ==
  LET v_email    == NormalizedEmailParam(p_email)
      v_whatsapp == NormalizedWhatsappParam(p_whatsapp_number)
  IN  IF ~NoRaise(v_email, v_whatsapp) THEN rows
      ELSE [i \in 1..Len(rows) |->
              IF MatchesUncompleted(rows[i], v_email, v_whatsapp)
              THEN [rows[i] EXCEPT !.completed = TRUE, !.completed_at = Some(t)]
              ELSE rows[i]]

\* the function always answers true
MarkReturns_AlwaysTrue(rows, p_email, p_whatsapp_number) ==
  LET v_email    == NormalizedEmailParam(p_email)
      v_whatsapp == NormalizedWhatsappParam(p_whatsapp_number)
  IN  IF ~NoRaise(v_email, v_whatsapp) THEN NULL ELSE Some(TRUE)

\* mark_incomplete_registration_completed: what it returns, v_updated > 0
\* with v_updated the ROW_COUNT of the UPDATE (nothing when the exception
\* is raised)
MarkReturns(rows, p_email, p_whatsapp_number) ==
  LET v_email    == NormalizedEmailParam(p_email)
      v_whatsapp == NormalizedWhatsappParam(p_whatsapp_number)
      v_updated  == Cardinality({i \in 1..Len(rows) :
                                   MatchesUncompleted(rows[i], v_email, v_whatsapp)})
  IN  IF ~NoRaise(v_email, v_whatsapp) THEN NULL ELSE Some(v_updated > 0)

\* markIncompleteRegistrationCompleted(email), as submit calls it: the
\* function is asked to complete the rows of this e-mail
markIncompleteRegistrationCompleted(rows, email, t) ==
  mark_incomplete_registration_completed(rows, Some(email), NULL, t)

CompletionOutcomes == {"ok", "fails"}

\* a rejection of the completion call: what .catch makes of it
AfterCompletion_Surfaced(fl, outcome) ==
  IF outcome = "fails"
  THEN [fl EXCEPT !.completion = outcome, !.success = Some(FALSE),
                  !.error = Some(<<"Registration", "failed">>),
                  !.registrationId = NULL]
  ELSE [fl EXCEPT !.completion = outcome]

\* submit, lines 282-284: the call settles after submit has returned; a
\* rejection is logged and nothing else
AfterCompletion(fl, outcome) == [fl EXCEPT !.completion = outcome]

\* the completion call started by submit runs, or fails
CompletionSettles(f) ==
  /\ flow[f].completion = "pending"
  /\ \E outcome \in CompletionOutcomes :
       /\ incomplete' = IF outcome = "ok"
                        THEN markIncompleteRegistrationCompleted(incomplete,
                               flow[f].registrant[1].email, now)
                        ELSE incomplete
       /\ flow' = [flow EXCEPT ![f] = AfterCompletion(flow[f], outcome)]
  /\ UNCHANGED <<seeded, inserted, attempts, now, started, call, emailField, limiter, aggregator>>

\* the arguments direct callers pass
EmailParams == {NULL, Some(<<" ", "A">>), Some(<<" ">>)}

WhatsappParams == {NULL, Some(<<"7">>), Some(<<" ">>)}

FullNameParams == {NULL, Some(ValidName)}

\* a call of log_incomplete_registration by anon or authenticated
LogIncompleteRegistration(names, maxRows) ==
  /\ \E p_email \in EmailParams, p_whatsapp_number \in WhatsappParams,
        p_full_name \in names :
       \E outcome \in log_incomplete_registration(incomplete, p_email,
                         p_whatsapp_number, p_full_name, now) :
          /\ Len(outcome.rows) <= maxRows
          /\ incomplete' = outcome.rows
          /\ call' = [fn |-> "log_incomplete_registration", arg |-> NULL,
                      result |-> outcome.id]
  /\ UNCHANGED <<seeded, inserted, attempts, now, flow, started, emailField,
                 limiter, aggregator>>

\* a call of mark_incomplete_registration_completed by anon or authenticated
MarkIncompleteRegistrationCompleted ==
  /\ \E p_email \in EmailParams, p_whatsapp_number \in WhatsappParams :
       /\ incomplete' = mark_incomplete_registration_completed(incomplete, p_email,
                          p_whatsapp_number, now)
       /\ call' = [fn |-> "mark_incomplete_registration_completed", arg |-> NULL,
                   result |-> MarkReturns(incomplete, p_email, p_whatsapp_number)]
  /\ UNCHANGED <<seeded, inserted, attempts, now, flow, started, emailField,
                 limiter, aggregator>>

\* a full name is put to the client rule and to the storage constraint
ValidateFullName(names) ==
  /\ \E name \in names :
       call' = [fn |-> "isValidFullName", arg |-> Some(name),
                result |-> Some([client |-> isValidFullName(name),
                                 storage |-> check_full_name(name)])]
  /\ UNCHANGED <<seeded, inserted, attempts, now, flow, started, emailField,
                 limiter, incomplete, aggregator>>

(* ---------------------------------------------------------------------- *)
(* Specifications                                                          *)
(* ---------------------------------------------------------------------- *)

Init ==
  /\ seeded \in (v_limit - MaxFree)..v_limit
  /\ inserted = <<>>
  /\ attempts = <<>>
  /\ now = 0
  /\ flow = [f \in Flows |-> IdleFlow]
  /\ started = 0
  /\ call = NoCall
  /\ emailField = EmptyForm
  /\ limiter = NoLimiter
  /\ incomplete = <<>>
  /\ aggregator = NoAggregator(DefaultBatchSize)

\* outcomes of the calls the client makes: an RPC answers or fails, the
\* token RPC yields a token or nothing, the edge-function call is not sent,
\* times out after being served, or is answered
RpcFailures == BOOLEAN

Tokens == {NULL, Some("tok")}

Nets == {"unsent", "timeout", "ok"}

Next ==
  \/ \E f \in Flows : Begin(f, Forms, IPs, MaxSubmits)
  \/ \E f \in Flows : CheckWaitlist(f, RpcFailures)
  \/ \E f \in Flows : GenerateAccessToken(f, Tokens)
  \/ \E f \in Flows : SubmitRegistration(f, Nets)
  \/ \E f \in Flows : GetWaitlistPosition(f, RpcFailures)
  \/ Tick(MaxTime)

Spec == Init /\ [][Next]_vars

\* the rate limiter under load: an empty table, two e-mails
InitRate ==
  /\ seeded = 0
  /\ inserted = <<>>
  /\ attempts = <<>>
  /\ now = 0
  /\ flow = [f \in Flows |-> IdleFlow]
  /\ started = 0
  /\ call = NoCall
  /\ emailField = EmptyForm
  /\ limiter = NoLimiter
  /\ incomplete = <<>>
  /\ aggregator = NoAggregator(DefaultBatchSize)

\* the RPCs answer; the edge-function call is served, its reply may be lost
NextRate ==
  \/ \E f \in Flows : Begin(f, FormsRate, IPsRate, MaxRateSubmits)
  \/ \E f \in Flows : CheckWaitlist(f, {FALSE})
  \/ \E f \in Flows : GenerateAccessToken(f, {Some("tok")})
  \/ \E f \in Flows : SubmitRegistration(f, {"timeout", "ok"})
  \/ Tick(MaxRateTime)

SpecRate == InitRate /\ [][NextRate]_vars

\* one submit flow at a time, and direct calls of the database
MaxDbSubmits == 2

NextDb ==
  \/ Begin("f1", FormsDb, IPs, MaxDbSubmits)
  \/ CheckWaitlist("f1", {FALSE})
  \/ GenerateAccessToken("f1", {Some("tok")})
  \/ SubmitRegistration("f1", {"ok"})
  \/ GetWaitlistPosition("f1", {FALSE})
  \/ Tick(MaxTime)
  \/ \E caller \in Callers : RpcGetRegistrationCount(caller)
  \/ \E caller \in Callers : RpcShouldAddToWaitlist(caller)
  \/ \E caller \in Callers, p_email \in DbEmails : RpcGetWaitlistPosition(caller, p_email)
  \/ \E caller \in Callers, p_email \in DbEmails, v \in BOOLEAN :
       UpdateRegistration(caller, p_email, v)
  \/ \E caller \in Callers, p_email \in DbEmails : DeleteRegistration(caller, p_email)

SpecDb == Init /\ [][NextDb]_vars

\* one submit flow, and requests to get-resume-url
MaxResumeSubmits == 1

NextResume ==
  \/ Begin("f1", FormsResume, IPs, MaxResumeSubmits)
  \/ CheckWaitlist("f1", {FALSE})
  \/ GenerateAccessToken("f1", {Some("tok")})
  \/ SubmitRegistration("f1", {"ok"})
  \/ GetWaitlistPosition("f1", {FALSE})
  \/ Tick(MaxTime)
  \/ GetResumeUrl(Requests)

SpecResume == Init /\ [][NextResume]_vars

\* requests to verify-recaptcha
NextCaptcha ==
  \/ VerifyRecaptcha(CaptchaRequests)
  \/ Tick(MaxTime)

SpecCaptcha == Init /\ [][NextCaptcha]_vars

\* the e-mail field: edits, blurs, the debounce timer and lookups
NextForm ==
  \/ \E value \in EmailValues : ChangeEmail(value)
  \/ BlurEmail
  \/ TimerFires
  \/ LookupCompletes

SpecForm == Init /\ [][NextForm]_vars

\* the whole form: the e-mail field, the LinkedIn field, resume selection,
\* resets and validation
NextAnchor ==
  \/ NextForm
  \/ \E value \in LinkedInValues : ChangeLinkedIn(value)
  \/ \E selected \in BOOLEAN : SetHasResume(selected)
  \/ ResetForm
  \/ ValidateAllFields

\* the form as mounted, the main list full
InitAnchor == Init /\ seeded = v_limit

SpecAnchor == InitAnchor /\ [][NextAnchor]_vars

\* the browser starts with nothing stored, or with a window at the ceiling
InitClient ==
  /\ seeded = v_limit
  /\ inserted = <<>>
  /\ attempts = <<>>
  /\ now = 0
  /\ flow = [f \in Flows |-> IdleFlow]
  /\ started = 0
  /\ call = NoCall
  /\ emailField = EmptyForm
  /\ limiter \in {NoLimiter,
                  [NoLimiter EXCEPT !.state = Some([attempts |-> ClientLimit,
                                                    windowStart |-> 0])]}
  /\ incomplete = <<>>
  /\ aggregator = NoAggregator(DefaultBatchSize)

NextClient ==
  \/ ClientSubmit(MaxClientSubmits)
  \/ Tick(MaxClientTime)

SpecClient == InitClient /\ [][NextClient]_vars

\* the tables one more call of log_incomplete_registration at time 0 leaves
LoggedAfter(tables) ==
  UNION {{outcome.rows : outcome \in log_incomplete_registration(rows, p_email,
                                        p_whatsapp_number, NULL, 0)} :
           rows \in tables, p_email \in EmailParams,
           p_whatsapp_number \in WhatsappParams}

\* the tables one call of mark_incomplete_registration_completed at time 0
\* leaves
MarkedAfter(tables) ==
  {mark_incomplete_registration_completed(rows, p_email, p_whatsapp_number, 0) :
     rows \in tables, p_email \in EmailParams, p_whatsapp_number \in WhatsappParams}

\* partial entries are logged where one may have been logged and completed
InitIncomplete ==
  /\ seeded = v_limit
  /\ inserted = <<>>
  /\ attempts = <<>>
  /\ now = 0
  /\ flow = [f \in Flows |-> IdleFlow]
  /\ started = 0
  /\ call = NoCall
  /\ emailField = EmptyForm
  /\ limiter = NoLimiter
  /\ incomplete \in MarkedAfter(LoggedAfter({<<>>}))
  /\ aggregator = NoAggregator(DefaultBatchSize)

\* direct calls of log_incomplete_registration
NextIncomplete ==
  \/ LogIncompleteRegistration(FullNameParams, MaxIncomplete)
  \/ Tick(MaxTime)

SpecIncomplete == InitIncomplete /\ [][NextIncomplete]_vars

\* direct calls of both functions, in any order
NextProcedures ==
  \/ LogIncompleteRegistration({NULL}, MaxIncomplete)
  \/ MarkIncompleteRegistrationCompleted
  \/ Tick(MaxTime)

SpecProcedures == InitIncomplete /\ [][NextProcedures]_vars

\* the aggregator under any batch size of the environment
InitLogs ==
  /\ seeded = v_limit
  /\ inserted = <<>>
  /\ attempts = <<>>
  /\ now = 0
  /\ flow = [f \in Flows |-> IdleFlow]
  /\ started = 0
  /\ call = NoCall
  /\ emailField = EmptyForm
  /\ limiter = NoLimiter
  /\ incomplete = <<>>
  /\ aggregator \in {NoAggregator(batchSize) : batchSize \in BatchSizes}

NextLogs ==
  \/ Log(MaxLogs)
  \/ FlushTimerFires
  \/ Flush

SpecLogs == InitLogs /\ [][NextLogs]_vars

\* names put to both rules
NextNames == ValidateFullName(NamesUpTo(MaxNameLen) \cup LongNames)

SpecNames == Init /\ [][NextNames]_vars

\* registrations submitted where partial entries have been logged before
InitCompletion ==
  /\ seeded \in (v_limit - MaxFree)..v_limit
  /\ inserted = <<>>
  /\ attempts = <<>>
  /\ now = 0
  /\ flow = [f \in Flows |-> IdleFlow]
  /\ started = 0
  /\ call = NoCall
  /\ emailField = EmptyForm
  /\ limiter = NoLimiter
  /\ incomplete \in LoggedAfter(LoggedAfter({<<>>}))
  /\ aggregator = NoAggregator(DefaultBatchSize)

NextCompletion ==
  \/ \E f \in Flows : Begin(f, FormsCompletion, IPs, MaxCompletionSubmits)
  \/ \E f \in Flows : CheckWaitlist(f, {FALSE})
  \/ \E f \in Flows : GenerateAccessToken(f, {Some("tok")})
  \/ \E f \in Flows : SubmitRegistration(f, {"timeout", "ok"})
  \/ \E f \in Flows : GetWaitlistPosition(f, RpcFailures)
  \/ \E f \in Flows : CompletionSettles(f)
  \/ Tick(MaxTime)

SpecCompletion == InitCompletion /\ [][NextCompletion]_vars

\* the replies invoke can hand back without a transport error
ResponseNets == {"ok", "empty", "noid", "nosuccess"}

\* submits whose request is answered, with every shape of answer
NextResponse ==
  \/ \E f \in Flows : Begin(f, Forms, IPs, MaxSubmits)
  \/ \E f \in Flows : CheckWaitlist(f, RpcFailures)
  \/ \E f \in Flows : GenerateAccessToken(f, {Some("tok")})
  \/ \E f \in Flows : SubmitRegistration(f, ResponseNets \cup {"timeout"})
  \/ \E f \in Flows : GetWaitlistPosition(f, {FALSE})
  \/ Tick(MaxTime)

SpecResponse == Init /\ [][NextResponse]_vars

(* ---------------------------------------------------------------------- *)
(* Properties of the admission flow                                        *)
(* ---------------------------------------------------------------------- *)

OnMainList(r) == ~r.is_waitlist

OnWaitlist(r) == r.is_waitlist

\* the main-list rows and the waitlisted rows, in insertion order
MainListRows(rows) == SelectSeq(rows, OnMainList)

WaitlistRows(rows) == SelectSeq(rows, OnWaitlist)

\* flow f receives the answer of its register-with-ip call in this step
Admits(f) == flow[f].pc = "submitRegistration" /\ flow'[f].pc # "submitRegistration"

\* this step appends one row to the table
Inserts == Len(inserted') = Len(inserted) + 1

InsertedRow == inserted'[Len(inserted')]

NotBlank(c) == c # " "

\* the mailbox an e-mail text denotes: blanks dropped, letters case-folded
Mailbox(text) ==
  LET bare == SelectSeq(text, NotBlank)
  IN  [i \in 1..Len(bare) |-> CASE bare[i] = "A" -> "a"
                                [] bare[i] = "B" -> "b"
                                [] OTHER -> bare[i]]

SeedMailbox == [i \in 1..v_limit |-> Mailbox(SeedRows[i].email)]

\* the mailboxes of the rows of public.registrations
StoredMailboxes ==
  {SeedMailbox[i] : i \in 1..seeded} \cup {Mailbox(inserted[i].email) : i \in 1..Len(inserted)}

\* C1: two submissions with the same normalized e-mail never both insert: no
\* two rows share a normalized e-mail; an admission succeeds only if the
\* e-mail was not stored, and then inserts exactly one row carrying it; an
\* admission whose e-mail is stored, and which passes validation and the rate
\* limiter, is rejected with the duplicate-email error and inserts nothing.
C1_OneRowPerEmail ==
  [][ /\ (\A f \in Flows : ~Admits(f)) => inserted' = inserted
      /\ Inserts => Cardinality(StoredMailboxes') = seeded' + Len(inserted')
      /\ \A f \in Flows : Admits(f) =>
           \A known \in {Mailbox(flow[f].email) \in StoredMailboxes} :
              /\ flow'[f].outcome = "success" =>
                   ~known /\ Inserts /\ Mailbox(InsertedRow.email) = Mailbox(flow[f].email)
              /\ flow'[f].outcome # "success" => inserted' = inserted
              /\ flow'[f].outcome = "duplicate_email" => known
              /\ ( /\ known
                   /\ flow'[f].outcome # "none"
                   /\ ValidSubmission(RequestBody(flow[f]))
                   /\ ~RateLimited(attempts, flow[f].email, flow[f].ip, now) )
                 => flow'[f].outcome = "duplicate_email"
    ]_vars

\* a retry of an e-mail that is already stored was answered "duplicate"
C1_Witness ==
  \E f \in Flows :
    /\ flow[f].pc = "done"
    /\ flow[f].outcome = "duplicate_email"
    /\ \E i \in 1..Len(inserted) : inserted[i].created_at <= now

\* C2: a flow whose capacity check succeeded never stores the row that takes
\* the main list beyond the capacity of 200 with is_waitlist = false.
C2_CapacityNeverExceeded ==
  [][ \A f \in Flows :
        (Admits(f) /\ ~flow[f].waitlistError /\ Inserts /\ ~InsertedRow.is_waitlist)
        => \A after \in {registrations'} : Len(MainListRows(after)) <= v_limit
    ]_vars

\* C5: a row stored with is_waitlist = true by a submit flow is inserted when
\* the main list holds at least 200 rows.
C5_WaitlistedOnlyWhenFull ==
  [][ \A f \in Flows :
        (Admits(f) /\ Inserts /\ InsertedRow.is_waitlist)
        => Len(MainListRows(registrations)) >= v_limit
    ]_vars

\* a flow has stored a waitlisted row
C5_Witness ==
  \E i \in 1..Len(inserted) : inserted[i].is_waitlist

(* ---------------------------------------------------------------------- *)
(* Properties of the rate limiter                                          *)
(* ---------------------------------------------------------------------- *)

\* the accepted attempts made in the window of length WindowTicks ending at t
AcceptedIn(t) ==
  {i \in 1..Len(attempts) : attempts[i].at <= t /\ attempts[i].at > t - WindowTicks}

AcceptedForEmail(email, t) == {i \in AcceptedIn(t) : attempts[i].email = email}

AcceptedForIp(ip, t) == {i \in AcceptedIn(t) : attempts[i].ip = ip}

RateEmails == {NormalizeEmail(form.email) : form \in FormsRate}

C4_FourthRejectedUntilWindowElapses ==
  [][ \A f \in Flows : Admits(f) =>
        LET used  == Cardinality(AcceptedForEmail(flow[f].email, now))
            usedIp == Cardinality(AcceptedForIp(flow[f].ip, now))
        IN  /\ used >= EmailLimit =>
                 /\ flow'[f].outcome = "rate_limit"
                 /\ inserted' = inserted
                 /\ attempts' = attempts
            /\ ( /\ used < EmailLimit
                 /\ usedIp < IpLimit
                 /\ ValidSubmission(RequestBody(flow[f])) )
               => /\ flow'[f].outcome \in {"success", "duplicate_email"}
                  /\ Len(attempts') = Len(attempts) + 1
    ]_vars

\* a flow was turned away at the ceiling, and the same e-mail was accepted a
\* fourth time after the window had elapsed
C4_Witness ==
  /\ \E f \in Flows : flow[f].outcome = "rate_limit"
  /\ \E email \in RateEmails :
       /\ Cardinality({i \in 1..Len(attempts) : attempts[i].email = email}) > EmailLimit
       /\ Cardinality(AcceptedForEmail(email, now)) < EmailLimit

(* ---------------------------------------------------------------------- *)
(* Properties of the database functions and policies                       *)
(* ---------------------------------------------------------------------- *)

\* a direct call of the database is answered in this step
Answers(fn) == call' # call /\ call'.fn = fn

\* C6: should_add_to_waitlist() answers true exactly when the rows with
\* is_waitlist = false number at least 200, and get_registration_count()
\* answers that number; waitlisted rows are not counted.
C6_CapacityCountsMainListOnly ==
  [][ /\ Answers("should_add_to_waitlist") =>
           \A main \in {Len(MainListRows(registrations))} :
              call'.result = Some(main >= v_limit)
      /\ Answers("get_registration_count") =>
           \A main \in {Len(MainListRows(registrations))} :
              call'.result = Some(main)
    ]_vars

\* with a waitlisted row in the table the main list is reported full and
\* the count asked for is still 200
C6_Witness ==
  /\ \E i \in 1..Len(inserted) : inserted[i].is_waitlist
  /\ \/ call = [fn |-> "should_add_to_waitlist", arg |-> NULL, result |-> Some(TRUE)]
     \/ call = [fn |-> "get_registration_count", arg |-> NULL, result |-> Some(v_limit)]

\* C7: the Nth waitlisted row by created_at ascending has position N, so
\* distinct waitlisted rows have distinct positions, equal created_at
\* included, and earlier main-list rows do not shift the rank.
C7_NthWaitlistedRowHasPositionN ==
  \A waitlist \in {WaitlistRows(registrations)} :
    \A n \in 1..Len(waitlist) :
      get_waitlist_position(registrations, waitlist[n].email) = n

\* C8: for an e-mail without a waitlisted row get_waitlist_position answers 0
\* and getWaitlistPosition reports no position of 1 or higher.
C8_NoPositionOffTheWaitlist ==
  \A p_email \in DbEmails :
    ( /\ call.fn = "get_waitlist_position"
      /\ call.arg = Some(p_email)
      /\ ~\E i \in 1..Len(inserted) : inserted[i].email = p_email /\ inserted[i].is_waitlist )
      => /\ call.result = Some(0)
         /\ getWaitlistPosition(registrations, p_email, FALSE) \in {NULL, Some(0)}

\* C9: whatever anon and authenticated callers do, every stored row stays
\* in place with all its fields, and every UPDATE and DELETE touches no row.
C9_RowsImmutable ==
  [][ /\ seeded' = seeded
      /\ Len(inserted') >= Len(inserted)
      /\ \A i \in 1..Len(inserted) : inserted'[i] = inserted[i]
      /\ (Answers("update") \/ Answers("delete")) => call'.result = Some(0)
    ]_vars

\* an UPDATE and a DELETE aimed at a stored row have been answered
C9_Witness ==
  /\ call.fn \in {"update", "delete"}
  /\ \E i \in 1..Len(inserted) : Some(inserted[i].email) = call.arg

(* ---------------------------------------------------------------------- *)
(* Properties of get-resume-url                                            *)
(* ---------------------------------------------------------------------- *)

\* the request carried the admin password the deployment is configured with
PresentsConfiguredPassword(credentials) ==
  /\ credentials.ADMIN_PASSWORD # NULL
  /\ credentials.admin_password = credentials.ADMIN_PASSWORD

\* the request carried a bearer token the auth provider accepts
PresentsAcceptedToken(credentials) ==
  credentials.authHeader \in {Some(<<"Bearer ", t>>) : t \in AcceptedTokens}

\* C10: a request with neither the configured admin password nor an accepted
\* bearer token gets no signed URL, and createSignedUrl is not invoked for
\* it (both follow from its being answered 401).
C10_NoSignedUrlWithoutCredential ==
  ( /\ call.fn = "get-resume-url"
    /\ ~PresentsConfiguredPassword(call.arg[1])
    /\ ~PresentsAcceptedToken(call.arg[1]) )
    => /\ call.result[1].url = NULL
       /\ ~call.result[1].signed

\* the request carried the admin password the function compares with
PresentsValidPassword(credentials) ==
  credentials.admin_password = Some(expectedPassword(credentials))

\* C11: a request with a valid admin credential, and a request with a valid
\* session token, is not answered 401, whatever the other credential is.
C11_EitherCredentialSuffices ==
  ( /\ call.fn = "get-resume-url"
    /\ PresentsValidPassword(call.arg[1]) \/ PresentsAcceptedToken(call.arg[1]) )
    => call.result[1].status # 401

\* the referenced resume paths of a table
ReferencedPaths(rows) == {rows[i].resume_path : i \in 1..Len(rows)} \ {NULL}

\* the request reaches the handler's authorization and passes it
Authorized(req) ==
  /\ req.method = "POST" /\ req.supabaseEnv /\ req.json
  /\ getResumeUrl(<<>>, req, 0).status # 401

\* C12: for an authorized request a signed URL is issued only for a path some
\* registration references; an unreferenced path is answered 404 without
\* createSignedUrl being invoked; a failing createSignedUrl gives 500, no URL.
C12_SignedUrlOnlyForReferencedPath ==
  \A referenced \in {ReferencedPaths(registrations)} :
    \A req \in {r \in Requests : Authorized(r) /\ r.resume_path # NULL} :
      \A response \in {getResumeUrl(registrations, req, now)} :
        /\ response.url # NULL => req.resume_path \in referenced
        /\ req.resume_path \notin referenced =>
             response.status = 404 /\ ~response.signed /\ response.url = NULL
        /\ (req.resume_path \in referenced /\ ~req.signs) =>
             response.status = 500 /\ response.url = NULL
        /\ (req.resume_path \in referenced /\ req.signs) =>
             response.status = 200 /\ response.url # NULL /\ response.signed

\* a stored row references a resume, and a request for another path was
\* answered 404
C12_Witness ==
  /\ ReferencedPaths(inserted) # {}
  /\ call.fn = "get-resume-url"
  /\ call.result[1].status = 404

(* ---------------------------------------------------------------------- *)
(* Properties of verify-recaptcha                                          *)
(* ---------------------------------------------------------------------- *)

\* C13: the response reports success = true only when the siteverify reply
\* carried success = true; a missing token, an unconfigured secret, a network
\* error and an unparsable reply each give a 400 or 500 without success; with
\* a missing token or secret siteverify is not fetched.
C13_CaptchaFailsClosed ==
  call.fn = "verify-recaptcha" =>
    \A req \in {call.arg[1]} : \A response \in {call.result[1]} :
      /\ response.success = Some(TRUE) =>
           /\ response.fetched
           /\ req.provider.kind = "json"
           /\ req.provider.success = Some(TRUE)
      /\ ( /\ req.method = "POST"
           /\ \/ req.token = NULL
              \/ req.RECAPTCHA_SECRET_KEY = NULL
              \/ req.provider.kind \in {"network_error", "not_json"} )
         => /\ response.status \in {400, 500}
            /\ response.success = NULL
            /\ response.error # NULL
      /\ (req.token = NULL \/ req.RECAPTCHA_SECRET_KEY = NULL) => ~response.fetched

\* siteverify was fetched and did not answer: the response is an error
C13_Witness ==
  /\ call.fn = "verify-recaptcha"
  /\ call.result[1].fetched
  /\ call.arg[1].provider.kind = "network_error"
  /\ call.result[1].status = 500

(* ---------------------------------------------------------------------- *)
(* Properties of the e-mail field                                          *)
(* ---------------------------------------------------------------------- *)

\* C14: the duplicate-email error reflects the lookup for the current value
\* of the field: a lookup issued for another value neither sets nor clears
\* the error once it answers.
C14_StaleLookupsDiscarded ==
  [][ \A lookup \in emailField.lookups :
        ( /\ emailField'.lookups = emailField.lookups \ {lookup}
          /\ emailField'.email = emailField.email
          /\ Mailbox(lookup.email) # Mailbox(emailField.email) )
        => emailField'.error = emailField.error ]_vars

(* ---------------------------------------------------------------------- *)
(* Properties of the client-side rate limiter                              *)
(* ---------------------------------------------------------------------- *)

\* a submit attempt is made in this step
Submits == limiter'.tries = limiter.tries + 1

\* the requests sent since the stored window started
SentInWindow ==
  {i \in 1..Len(limiter.sent) : limiter.sent[i] >= limiter.state[1].windowStart}

\* C15: with attempts at the ceiling of 3 and the window not elapsed, a
\* submit is blocked and no request is sent; at most 3 requests of one
\* browser are sent within one window.
C15_BlockedAtCeiling ==
  [][ /\ ( /\ Submits
           /\ limiter.state # NULL
           /\ limiter.state[1].attempts >= ClientLimit
           /\ now - limiter.state[1].windowStart <= ClientWindowTicks )
         => limiter'.last = "blocked" /\ limiter'.sent = limiter.sent
      /\ limiter.state # NULL => Cardinality(SentInWindow) <= ClientLimit
    ]_vars

\* three requests were sent in the window and a further submit was blocked
C15_Witness ==
  /\ limiter.state # NULL
  /\ Cardinality(SentInWindow) = ClientLimit
  /\ limiter.last = "blocked"

\* C16: once now - windowStart exceeds the window, the next submit starts a
\* fresh window and is sent although attempts had reached the ceiling;
\* inside a window every submit adds exactly one to attempts; attempts is
\* positive after every submit.
C16_WindowResetsAndCounts ==
  [][ Submits =>
        /\ limiter'.state # NULL /\ limiter'.state[1].attempts > 0
        /\ ( limiter.state # NULL
             /\ now - limiter.state[1].windowStart > ClientWindowTicks )
           => /\ limiter'.state[1].windowStart = now
              /\ limiter'.state[1].attempts = 1
              /\ limiter'.last = "sent"
              /\ limiter'.sent = Append(limiter.sent, now)
        /\ ( limiter.state # NULL
             /\ now - limiter.state[1].windowStart <= ClientWindowTicks )
           => /\ limiter'.state[1].attempts = limiter.state[1].attempts + 1
              /\ limiter'.state[1].windowStart = limiter.state[1].windowStart
    ]_vars

\* a submit found the stored window at the ceiling and elapsed, and was sent
C16_Witness ==
  /\ limiter.prior # NULL
  /\ limiter.prior[1].attempts >= ClientLimit
  /\ limiter.state[1].windowStart > limiter.prior[1].windowStart
  /\ limiter.last = "sent"

(* ---------------------------------------------------------------------- *)
(* Properties of the errors submit returns                                 *)
(* ---------------------------------------------------------------------- *)

UncompletedFor(rows, p_email, p_whatsapp_number) ==
  LET e == NormalizedEmailParam(p_email)
      w == NormalizedWhatsappParam(p_whatsapp_number)
  IN  {i \in 1..Len(rows) :
         /\ ~rows[i].completed
         /\ \/ e # NULL /\ rows[i].email = e
            \/ w # NULL /\ rows[i].whatsapp_number = w}

\* row i of after is row i of before, refreshed at t and overwritten where a
\* parameter was supplied
Refreshed(before, after, i, p_email, p_whatsapp_number, p_full_name, t) ==
  LET e == NormalizedEmailParam(p_email)
      w == NormalizedWhatsappParam(p_whatsapp_number)
  IN  /\ after[i].last_activity_at = t
      /\ after[i].email = (IF e # NULL THEN e ELSE before[i].email)
      /\ after[i].whatsapp_number = (IF w # NULL THEN w ELSE before[i].whatsapp_number)
      /\ after[i].full_name = (IF p_full_name # NULL THEN p_full_name ELSE before[i].full_name)
      /\ after[i].email # before[i].email => p_email # NULL
      /\ after[i].whatsapp_number # before[i].whatsapp_number => p_whatsapp_number # NULL
      /\ after[i].full_name # before[i].full_name => p_full_name # NULL
      /\ after[i].id = before[i].id
      /\ after[i].entered_at = before[i].entered_at
      /\ after[i].completed = before[i].completed
      /\ after[i].completed_at = before[i].completed_at

\* C20: whatever the parameters, log_incomplete_registration adds a row only
\* when no uncompleted row matches by e-mail or WhatsApp number; when one or
\* more match it leaves the number of rows as it was, changes exactly one
\* row, a matching uncompleted row with the latest entered_at, overwrites in
\* it only the fields supplied non-null, sets its last_activity_at to the
\* time of the call, returns its id, and leaves every other row as it was.
C20_LogUpdatesLatestOrInserts ==
  \A p_email \in EmailParams, p_whatsapp_number \in WhatsappParams,
     p_full_name \in FullNameParams :
    \A outcome \in log_incomplete_registration(incomplete, p_email,
                      p_whatsapp_number, p_full_name, now) :
      \A matching \in {UncompletedFor(incomplete, p_email, p_whatsapp_number)} :
        /\ Len(outcome.rows) > Len(incomplete) => matching = {}
        /\ matching # {} =>
             /\ Len(outcome.rows) = Len(incomplete)
             /\ \E i \in matching :
                  /\ \A j \in matching :
                       incomplete[j].entered_at <= incomplete[i].entered_at
                  /\ outcome.id = Some(incomplete[i].id)
                  /\ Refreshed(incomplete, outcome.rows, i, p_email,
                               p_whatsapp_number, p_full_name, now)
                  /\ \A k \in 1..Len(incomplete) :
                       k # i => outcome.rows[k] = incomplete[k]

\* a call has refreshed the later of two uncompleted rows of one e-mail
C20_Witness ==
  /\ call.fn = "log_incomplete_registration"
  /\ \E i, j \in 1..Len(incomplete) :
       /\ call.result = Some(incomplete[i].id)
       /\ incomplete[i].last_activity_at = now
       /\ ~incomplete[i].completed /\ ~incomplete[j].completed
       /\ incomplete[j].entered_at < incomplete[i].entered_at
       /\ incomplete[i].email # NULL
       /\ incomplete[j].email = incomplete[i].email

(* ---------------------------------------------------------------------- *)
(* Properties of the completion of incomplete registrations               *)
(* ---------------------------------------------------------------------- *)

\* the uncompleted rows that match a registrant by e-mail or WhatsApp number
MatchingRegistrant(rows, registrant) ==
  {i \in 1..Len(rows) :
     /\ ~rows[i].completed
     /\ \/ rows[i].email = Some(registrant.email)
        \/ registrant.whatsapp # NULL /\ rows[i].whatsapp_number = registrant.whatsapp}

\* the completion call of f runs without failing in this step
CompletionRan(f) ==
  flow[f].completion = "pending" /\ flow'[f].completion = "ok"

\* C17: when the completion call of a successful registration has run
\* without failing, every row that was uncompleted and matched the
\* registrant by e-mail or by WhatsApp number is completed.
C17_MatchingRowsCompleted ==
  [][\A f \in Flows :
       CompletionRan(f) =>
         \A i \in MatchingRegistrant(incomplete, flow[f].registrant[1]) :
           incomplete'[i].completed]_vars

\* the completion call of f settles in this step
CompletionSettled(f) ==
  flow[f].completion = "pending" /\ flow'[f].completion \in CompletionOutcomes

\* submit returns in this step and submitRegistration gave it no insert error
ReturnsSuccess(f) ==
  /\ flow[f].pc \in {"submitRegistration", "getWaitlistPosition"}
  /\ flow'[f].pc = "done"
  /\ flow'[f].error = NULL

\* what submit has returned
Result(fl) ==
  [success |-> fl.success, registrationId |-> fl.registrationId,
   isWaitlist |-> fl.isWaitlist, error |-> fl.error,
   accessToken |-> fl.accessToken, waitlistPosition |-> fl.waitlistPosition]

\* C18: when submitRegistration has reported no insert error, submit returns
\* success = true with the registration id and the waitlist flag while the
\* completion call is still pending, and the call settling, failing or not,
\* changes nothing of what submit returned.
C18_CompletionFailureSwallowed ==
  [][\A f \in Flows :
       /\ ReturnsSuccess(f) =>
            /\ flow'[f].success = Some(TRUE)
            /\ flow'[f].registrationId # NULL
            /\ flow'[f].isWaitlist = flow[f].isWaitlist
            /\ flow'[f].completion = "pending"
       /\ CompletionSettled(f) =>
            /\ Result(flow'[f]) = Result(flow[f])
            /\ flow'[f].success = Some(TRUE)
            /\ flow'[f].registrationId # NULL]_vars

\* a completion call has failed after submit returned success
C18_Witness ==
  \E f \in Flows :
    /\ flow[f].completion = "fails"
    /\ flow[f].success = Some(TRUE)
    /\ MatchingRegistrant(incomplete, flow[f].registrant[1]) # {}

(* ---------------------------------------------------------------------- *)
(* Properties of the two functions of public.incomplete_registrations     *)
(* ---------------------------------------------------------------------- *)

\* both parameters are null or blank after trimming
BothBlank(p_email, p_whatsapp_number) ==
  /\ p_email = NULL \/ Trim(p_email[1]) = <<>>
  /\ p_whatsapp_number = NULL \/ Trim(p_whatsapp_number[1]) = <<>>

\* C21: for parameters that are not both blank,
\* mark_incomplete_registration_completed sets completed and stamps
\* completed_at with the time of the call on every uncompleted row matching
\* by e-mail or WhatsApp number, leaves every other row as it was, returns
\* true exactly when a row matched, and a second call with the same
\* parameters, at once or later, changes no row and returns false.
C21_MarkCompletesMatchingOnce ==
  \A p_email \in EmailParams, p_whatsapp_number \in WhatsappParams :
    ~BothBlank(p_email, p_whatsapp_number) =>
      \A matching \in {UncompletedFor(incomplete, p_email, p_whatsapp_number)} :
        \A after \in {mark_incomplete_registration_completed(incomplete, p_email,
                        p_whatsapp_number, now)} :
          /\ Len(after) = Len(incomplete)
          /\ \A i \in 1..Len(incomplete) :
               after[i] = IF i \in matching
                          THEN [incomplete[i] EXCEPT !.completed = TRUE,
                                                     !.completed_at = Some(now)]
                          ELSE incomplete[i]
          /\ MarkReturns(incomplete, p_email, p_whatsapp_number) = Some(matching # {})
          /\ \A later \in {now, now + 1} :
               mark_incomplete_registration_completed(after, p_email,
                 p_whatsapp_number, later) = after
          /\ MarkReturns(after, p_email, p_whatsapp_number) = Some(FALSE)

\* a call has completed a row stamped with the time of the call, has
\* answered true and has left an uncompleted row alone
C21_Witness ==
  /\ call.fn = "mark_incomplete_registration_completed"
  /\ call.result = Some(TRUE)
  /\ now > 0
  /\ \E i, j \in 1..Len(incomplete) :
       /\ incomplete[i].completed /\ incomplete[i].completed_at = Some(now)
       /\ ~incomplete[j].completed

\* C22: every row has an e-mail or a WhatsApp number, and a call of either
\* function whose e-mail and WhatsApp number are both null or blank after
\* trimming raises the exception and leaves the table as it was.
C22_EmailOrWhatsappAlways ==
  /\ \A i \in 1..Len(incomplete) :
       incomplete[i].email # NULL \/ incomplete[i].whatsapp_number # NULL
  /\ \A p_email \in EmailParams, p_whatsapp_number \in WhatsappParams :
       BothBlank(p_email, p_whatsapp_number) =>
         /\ \A p_full_name \in FullNameParams :
              log_incomplete_registration(incomplete, p_email, p_whatsapp_number,
                p_full_name, now) = {[rows |-> incomplete, id |-> NULL]}
         /\ mark_incomplete_registration_completed(incomplete, p_email,
              p_whatsapp_number, now) = incomplete
         /\ MarkReturns(incomplete, p_email, p_whatsapp_number) = NULL

\* calls have been made, one of them raising, on a table with a row that
\* has no e-mail and a row that has no WhatsApp number
C22_Witness ==
  /\ call.fn # "none" /\ call.result = NULL
  /\ \E i, j \in 1..Len(incomplete) :
       /\ incomplete[i].email = NULL
       /\ incomplete[j].whatsapp_number = NULL

\* a completed row matches these parameters
CompletedFor(rows, p_email, p_whatsapp_number) ==
  \E i \in 1..Len(rows) :
    /\ rows[i].completed
    /\ \/ p_email # NULL /\ rows[i].email = NormalizedEmailParam(p_email)
       \/ p_whatsapp_number # NULL
            /\ rows[i].whatsapp_number = NormalizedWhatsappParam(p_whatsapp_number)

\* a partial entry that matches completed rows only is logged as a new row
NewRowAfterCompleted ==
  \A p_email \in EmailParams, p_whatsapp_number \in WhatsappParams :
    (/\ ~BothBlank(p_email, p_whatsapp_number)
     /\ CompletedFor(incomplete, p_email, p_whatsapp_number)
     /\ UncompletedFor(incomplete, p_email, p_whatsapp_number) = {}) =>
      \A outcome \in log_incomplete_registration(incomplete, p_email,
                        p_whatsapp_number, NULL, now) :
        /\ Len(outcome.rows) = Len(incomplete) + 1
        /\ ~outcome.rows[Len(outcome.rows)].completed
        /\ SubSeq(outcome.rows, 1, Len(incomplete)) = incomplete

\* C30: no step of the two functions changes a completed row or removes a
\* row, and a partial entry whose e-mail or WhatsApp number matches completed
\* rows only is logged as a new uncompleted row.
C30_CompletedRowsFrozen ==
  /\ []NewRowAfterCompleted
  /\ [][/\ Len(incomplete') >= Len(incomplete)
        /\ \A i \in 1..Len(incomplete) :
             /\ incomplete'[i].id = incomplete[i].id
             /\ incomplete[i].completed => incomplete'[i] = incomplete[i]]_vars

\* a new uncompleted row stands beside an earlier completed row of the same
\* e-mail, and the clock has moved since that row was completed
C30_Witness ==
  \E i, j \in 1..Len(incomplete) :
    /\ i < j
    /\ incomplete[i].completed /\ ~incomplete[j].completed
    /\ incomplete[i].email # NULL
    /\ incomplete[i].email = incomplete[j].email
    /\ incomplete[i].completed_at # Some(now)

(* ---------------------------------------------------------------------- *)
(* Properties of the name rules                                           *)
(* ---------------------------------------------------------------------- *)

\* C23: the client rule and the storage constraint give the same verdict on
\* every full name: one accepted by isValidFullName satisfies
\* check_full_name, and one rejected by isValidFullName fails it.
C23_NameRulesAgree ==
  call.fn = "isValidFullName" =>
    call.result[1].client = call.result[1].storage

(* ---------------------------------------------------------------------- *)
(* Properties of the form's validation                                    *)
(* ---------------------------------------------------------------------- *)

\* C24: in every state of the form, validateAllFields reports the
\* LinkedIn-or-resume-required error exactly when the LinkedIn field is
\* blank and no resume is selected, and a report made earlier was right
\* for the form as long as the form has not changed since.
C24_AnchorRequired ==
  /\ [](validateAllFields(emailField) = "resumeRequired"
         <=> (Trim(emailField.linkedIn) = <<>> /\ ~emailField.hasResume))
  /\ [][(emailField'.reported # emailField.reported /\ emailField'.reported # NULL) =>
          (emailField'.reported = Some("resumeRequired")
             <=> (Trim(emailField.linkedIn) = <<>> /\ ~emailField.hasResume))]_vars

\* validation has reported the missing anchor for a field holding a blank
C24_Witness ==
  /\ emailField.reported = Some("resumeRequired")
  /\ emailField.linkedIn = <<" ">>
  /\ ~emailField.hasResume

(* ---------------------------------------------------------------------- *)
(* Properties of the log aggregator                                       *)
(* ---------------------------------------------------------------------- *)

\* the batch size in effect
EffectiveBatchSize ==
  IF aggregator.batchSize = 0 THEN DefaultBatchSize ELSE aggregator.batchSize

RECURSIVE Flatten(_)
\* the entries of a sequence of batches, in order
Flatten(batches) ==
  IF batches = <<>> THEN <<>> ELSE Head(batches) \o Flatten(Tail(batches))

\* the entries logged so far, in log order
Logged == [i \in 1..aggregator.logged |-> i]

\* C25: the buffer always holds fewer entries than the batch size, a
\* non-empty buffer always has a pending flush timer, the batches handed to
\* sendBatch followed by the buffer are exactly the entries logged, each
\* once and in log order, no batch is empty or longer than the batch size,
\* the timer is started by the entry that enters an empty buffer, and the
\* timer firing hands the whole buffer over as one batch.
C25_BatchingKeepsOrder ==
  /\ [](/\ Len(aggregator.logBuffer) < EffectiveBatchSize
        /\ aggregator.logBuffer # <<>> => aggregator.pending
        /\ aggregator.pending <=> aggregator.flushTimer # NULL
        /\ Flatten(aggregator.batches) \o aggregator.logBuffer = Logged
        /\ \A b \in 1..Len(aggregator.batches) :
             /\ aggregator.batches[b] # <<>>
             /\ Len(aggregator.batches[b]) <= EffectiveBatchSize)
  /\ [][/\ (~aggregator.pending /\ aggregator'.pending) =>
             (aggregator.logBuffer = <<>> /\ Len(aggregator'.logBuffer) = 1)
        /\ (aggregator.pending /\ aggregator'.logged = aggregator.logged
              /\ aggregator' # aggregator) =>
             /\ aggregator'.logBuffer = <<>>
             /\ ~aggregator'.pending
             /\ aggregator'.batches = Append(aggregator.batches, aggregator.logBuffer)
        /\ Len(aggregator'.batches) > Len(aggregator.batches)
             /\ aggregator'.logged > aggregator.logged =>
               Len(aggregator.logBuffer) + 1 = EffectiveBatchSize]_vars

\* with the default size in effect, a full batch and a shorter batch,
\* flushed by the timer or from outside, have been handed over
C25_Witness ==
  /\ aggregator.batchSize = 0
  /\ \E b, c \in 1..Len(aggregator.batches) :
       /\ Len(aggregator.batches[b]) = DefaultBatchSize
       /\ Len(aggregator.batches[c]) < DefaultBatchSize

\* the reply a returned flow was answered with says success: true and
\* carries a registration id
ReplyIsSuccess(reply) ==
  /\ reply # NULL
  /\ reply[1].insertError = NULL
  /\ reply[1].registrationData # NULL
  /\ reply[1].registrationData[1].success = Some(TRUE)
  /\ reply[1].registrationData[1].id # NULL

\* C26: submit returns success = true only if register-with-ip returned no
\* transport error and a response whose success is true and which carries a
\* registration id; an empty response, or one without success = true or
\* without data.id, is never reported as a success
C26_SuccessNeedsSuccessReply ==
  \A f \in Flows :
    (flow[f].pc = "done" /\ flow[f].success = Some(TRUE))
      => ReplyIsSuccess(flow[f].reply)

\* the three steps every submit starts with, in their order
SubmitPrefix == <<"checkWaitlist", "generateAccessToken", "submitRegistration">>

AfterInsertSteps ==
  {"getWaitlistPosition", "markIncompleteRegistrationCompleted",
   "trackRegistration(true)"}

\* submitRegistration handed submit no error
InsertSucceeded(fl) ==
  fl.reply # NULL /\ submitRegistration(fl.reply[1]).error = NULL

\* the number of trackRegistration calls among the steps
TrackCalls(steps) ==
  Cardinality({i \in 1..Len(steps) :
                 steps[i] \in {"trackRegistration(true)", "trackRegistration(false)"}})

C27_WaitlistCheckFailureGoesOn ==
  \A f \in Flows :
    flow[f].waitlistError
      => /\ flow[f].pc \in {"generateAccessToken", "submitRegistration"}
         /\ flow[f].steps[1] = "checkWaitlist"
         /\ ~flow[f].isWaitlist
         /\ RequestBody(flow[f]).is_waitlist = FALSE

\* the check failed while the main list was full, and the flow stands at
\* the insert with a request for the main list
C27_Witness ==
  \E f \in Flows :
    /\ flow[f].waitlistError
    /\ flow[f].pc = "submitRegistration"
    /\ get_registration_count(registrations) >= v_limit
    /\ RequestBody(flow[f]).is_waitlist = FALSE

\* the request reaches the handler's authorization with neither the
\* password the function compares with nor a token the provider accepts
WithoutValidCredentials(req) ==
  /\ req.method = "POST" /\ req.supabaseEnv /\ req.json
  /\ ~PresentsValidPassword(req)
  /\ ~PresentsAcceptedToken(req)

\* the resume_path values a request may carry: none, a path a registration
\* may reference, and a path none references
ResumePaths == {NULL, Some("cv1.pdf"), Some("cv9.pdf")}

\* C28: a request without valid credentials is answered 401, and the
\* response is the same whatever its resume_path is (referenced by a
\* registration, referenced by none, or absent) and whatever the
\* registrations table holds
C28_UnauthorizedLearnsNothing ==
  \A req \in {r \in Requests : WithoutValidCredentials(r)} :
    \A response \in {getResumeUrl(registrations, req, now)} :
      /\ response.status = 401
      /\ response = getResumeUrl(<<>>, req, 0)
      /\ \A resume_path \in ResumePaths :
           getResumeUrl(registrations, [req EXCEPT !.resume_path = resume_path], now)
             = response

\* a registration references cv1.pdf, and a request for it without valid
\* credentials was answered 401
C28_Witness ==
  /\ Some("cv1.pdf") \in ReferencedPaths(inserted)
  /\ call.fn = "get-resume-url"
  /\ ~PresentsValidPassword(call.arg[1])
  /\ ~PresentsAcceptedToken(call.arg[1])
  /\ call.result[1].status = 401
  /\ \E req \in Requests :
       /\ WithoutValidCredentials(req)
       /\ req.resume_path = Some("cv1.pdf")
       /\ getResumeUrl(registrations, req, now) = call.result[1]

====
